---- MODULE Spec2Model ----
(***************************************************************************)
(* State-machine model of the FIR legal analysis web client:               *)
(*   UploadPage   (src/unnamed/part_000, lines 1-259)                      *)
(*   ResultsPage  (src/unnamed/part_000, lines 261-726)                    *)
(*   ResultsContent (src/frontend/src/components/ResultsContent.tsx)       *)
(* The backend behind POST /upload, GET /api/results/{id} and              *)
(* GET /api/document/{id} is the environment: every response it may give   *)
(* is drawn from a bounded set when a pending request settles.             *)
(***************************************************************************)
EXTENDS Integers, Sequences, FiniteSets, TLC

VARIABLES
    route,        \* the router's location: which page is mounted, and :workflowId
    up,           \* UploadPage's useState cells
    uploadCall,   \* the handleSubmit call: whether its POST /upload is pending, and the request
    rp,           \* ResultsPage's useState cells
    fetches,      \* fetchResults calls whose GET /api/results/{id} is pending
    addCall,      \* the handleAddSections call: where it stands, and its request
    dlCall,       \* the download onClick call: its request and what it did
    activeTab,    \* ResultsContent's useState cell
    routeChanges, \* how often the location changed under the mounted ResultsPage
    columns       \* the two-column section on screen: its list and its two columns

vars == <<route, up, uploadCall, rp, fetches, addCall, dlCall, activeTab, routeChanges,
          columns>>

----------------------------------------------------------------------------
(* Bounds of the model *)

\* how many of the AVAILABLE_SECTIONS checkboxes the user toggles one by one
MaxToggled == 1
\* how often the location changes to another /results/:workflowId under one
\* mounted ResultsPage
MaxRouteChanges == 1
\* TabSpec: how many fields of a workflow state are present at once
MaxPresent == 2
\* TabSpec: how many section ids a workflow state's `sections` lists
MaxSelected == 1
\* ColumnSpec: how many items the list of a two-column section has
MaxItems == 4

----------------------------------------------------------------------------
(* JavaScript values *)

Null == "null"
Absent == "absent"

\* truthiness of a string-valued JSON field that may be missing
TruthyString(s) == s # Absent /\ s # Null /\ s # ""

\* a || b on string operands
OrElse(a, b) == IF TruthyString(a) THEN a ELSE b

RECURSIVE Filter(_, _)
\* Array.prototype.filter keeping the elements in `keep`
Filter(s, keep) ==
    IF s = <<>> THEN <<>>
    ELSE IF Head(s) \in keep THEN <<Head(s)>> \o Filter(Tail(s), keep)
         ELSE Filter(Tail(s), keep)

Includes(s, x) == \E i \in 1..Len(s) : s[i] = x

Range(s) == {s[i] : i \in 1..Len(s)}

NoDuplicates(s) == \A i, j \in 1..Len(s) : s[i] = s[j] => i = j

----------------------------------------------------------------------------
(* Program constants *)

AVAILABLE_SECTIONS ==
    << "ndps", "bns", "bnss", "bsa", "investigation_plan", "historical_cases",
       "timeline", "evidence", "dos_and_donts", "weaknesses", "defence_rebuttal",
       "court_summary", "chargesheet" >>

SectionIds == Range(AVAILABLE_SECTIONS)

MaxFileSize == 10 * 1024 * 1024

PdfType == "application/pdf"

ErrSelectPdf == "Please select a PDF file"
ErrFileSize == "File size exceeds 10MB limit"
ErrDropPdf == "Please drop a PDF file"
ErrNoSection == "Please select at least one section to analyze"
ErrProcessing == "Error processing PDF. Please try again."
ErrNetwork == "Network error. Please check your connection and try again."

----------------------------------------------------------------------------
(* The environment: files the user may choose, responses the backend may give *)

NoFile == [type |-> "none", size |-> 0]

\* a PDF and a non-PDF, at and above the 10 MB limit
Files == [type : {PdfType, "image/png"}, size : {MaxFileSize, MaxFileSize + 1}]

\* the sections whose checkboxes the user toggles one by one
Clickable == {AVAILABLE_SECTIONS[i] : i \in 1..MaxToggled}

WorkflowIds == {"w1", "w2"}

NoBody == [kind |-> "none", success |-> Absent, workflow_id |-> Absent, detail |-> Absent]

\* bodies of a POST /upload response: not JSON, JSON null, or a JSON object
UploadBodies ==
    { [kind |-> k, success |-> Absent, workflow_id |-> Absent, detail |-> Absent]
        : k \in {"invalid", "null"} }
    \cup [kind : {"object"}, success : {"true"},
          workflow_id : WorkflowIds, detail : {Absent, "Invalid PDF file"}]
    \cup [kind : {"object"}, success : {"false", Absent},
          workflow_id : {Absent}, detail : {Absent, "", "Invalid PDF file"}]

\* a settled POST /upload: the fetch rejected, or a response with a status and a body
UploadResponses ==
    {[status |-> "rejected", body |-> NoBody]}
    \cup [status : {"ok", "notok"}, body : UploadBodies]

\* FormData of a POST /upload
NoRequest == [file |-> NoFile, sections |-> <<>>, workflow_id |-> Absent, hasSections |-> FALSE]

----------------------------------------------------------------------------
(* UploadPage *)

UpInit ==
    [file |-> NoFile, selectedSections |-> AVAILABLE_SECTIONS,
     isUploading |-> FALSE, error |-> Null]

IdleCall == [st |-> "idle", req |-> NoRequest]

OnUpload == route.page = "upload"

\* a handler whose rejection also forgets the file chosen before
FileSelectResultForgetsFile(u, selectedFile) ==
    IF selectedFile = NoFile THEN u
    ELSE IF selectedFile.type # PdfType
    THEN [u EXCEPT !.file = NoFile, !.error = ErrSelectPdf]
    ELSE IF selectedFile.size > MaxFileSize
    THEN [u EXCEPT !.file = NoFile, !.error = ErrFileSize]
    ELSE [u EXCEPT !.file = selectedFile, !.error = Null]

\* the state e.target.files?.[0] leads to; NoFile is a cancelled file dialog
FileSelectResult(u, selectedFile) ==
    IF selectedFile = NoFile THEN u
    ELSE IF selectedFile.type # PdfType THEN [u EXCEPT !.error = ErrSelectPdf]
    ELSE IF selectedFile.size > MaxFileSize THEN [u EXCEPT !.error = ErrFileSize]
    ELSE [u EXCEPT !.file = selectedFile, !.error = Null]

HandleFileSelect(selectedFile) ==
    /\ OnUpload
    /\ up' = FileSelectResult(up, selectedFile)
    /\ UNCHANGED <<route, uploadCall, rp, fetches, addCall, dlCall, activeTab, routeChanges, columns>>

\* the state e.dataTransfer.files[0] leads to; NoFile is a drop that carries no file
DropResult(u, droppedFile) ==
    IF droppedFile # NoFile /\ droppedFile.type = PdfType
    THEN [u EXCEPT !.file = droppedFile, !.error = Null]
    ELSE [u EXCEPT !.error = ErrDropPdf]

HandleDrop(droppedFile) ==
    /\ OnUpload
    /\ up' = DropResult(up, droppedFile)
    /\ UNCHANGED <<route, uploadCall, rp, fetches, addCall, dlCall, activeTab, routeChanges, columns>>

\* an onChange that appends whatever the box shows
ToggleAlwaysAppends(selected, id) == Append(selected, id)

\* a checkbox's onChange: the box is controlled, so e.target.checked is the
\* negation of what it shows
ToggleResult(selected, id) ==
    IF ~Includes(selected, id)
    THEN Append(selected, id)
    ELSE Filter(selected, Range(selected) \ {id})

ToggleSection(id) ==
    /\ OnUpload
    /\ up' = [up EXCEPT !.selectedSections = ToggleResult(up.selectedSections, id)]
    /\ UNCHANGED <<route, uploadCall, rp, fetches, addCall, dlCall, activeTab, routeChanges, columns>>

SelectAll ==
    /\ OnUpload
    /\ up' = [up EXCEPT !.selectedSections = AVAILABLE_SECTIONS]
    /\ UNCHANGED <<route, uploadCall, rp, fetches, addCall, dlCall, activeTab, routeChanges, columns>>

ClearAll ==
    /\ OnUpload
    /\ up' = [up EXCEPT !.selectedSections = <<>>]
    /\ UNCHANGED <<route, uploadCall, rp, fetches, addCall, dlCall, activeTab, routeChanges, columns>>

\* the submit button's disabled attribute
SubmitDisabled == up.file = NoFile \/ up.isUploading \/ Len(up.selectedSections) = 0

\* handleSubmit without formData.append('file', file)
SubmitRequestNoFile(u) ==
    [file |-> NoFile, sections |-> u.selectedSections, workflow_id |-> Absent,
     hasSections |-> TRUE]

\* the FormData handleSubmit builds
SubmitRequest(u) ==
    [file |-> u.file, sections |-> u.selectedSections, workflow_id |-> Absent,
     hasSections |-> TRUE]

\* whether handleSubmit goes on to fetch: it returns early without a file and
\* with an empty selection
SubmitSends(u) == u.file # NoFile /\ Len(u.selectedSections) # 0

\* the useState cells when handleSubmit reaches its await, or returns early
SubmitResult(u) ==
    IF u.file = NoFile THEN [u EXCEPT !.error = ErrSelectPdf]
    ELSE IF Len(u.selectedSections) = 0
         THEN [u EXCEPT !.isUploading = TRUE, !.error = ErrNoSection]
         ELSE [u EXCEPT !.isUploading = TRUE, !.error = Null]

\* the form's onSubmit, up to its first await. The handler guards a missing file
\* and an empty selection itself, so the submit event is delivered whatever the
\* button shows (form.requestSubmit()), one call at a time.
HandleSubmit ==
    /\ OnUpload
    /\ uploadCall.st # "pending"
    /\ up' = SubmitResult(up)
    /\ uploadCall' =
         IF SubmitSends(up)
         THEN [st |-> "pending", req |-> SubmitRequest(up)]
         ELSE IdleCall
    /\ UNCHANGED <<route, rp, fetches, addCall, dlCall, activeTab, routeChanges, columns>>

\* response.json() throws on a body that is not JSON
JsonThrows(resp) == resp.body.kind = "invalid"

\* data.success alone, response.ok forgotten
UploadSucceededIgnoresOk(resp) ==
    /\ resp.body.kind = "object"
    /\ resp.body.success = "true"

\* response.ok && data.success (data.success of JSON null throws a TypeError)
UploadSucceeded(resp) ==
    /\ resp.status = "ok"
    /\ resp.body.kind = "object"
    /\ resp.body.success = "true"

\* the try block of handleSubmit throws: fetch rejected, the body is not JSON, or
\* a property of JSON null is read
UploadThrows(resp) ==
    \/ resp.status = "rejected"
    \/ JsonThrows(resp)
    \/ resp.body.kind = "null"

\* data.detail ?? '...' in place of data.detail || '...'
UploadErrorNullish(resp) ==
    IF UploadThrows(resp) THEN ErrNetwork
    ELSE IF resp.body.detail # Absent THEN resp.body.detail ELSE ErrProcessing

\* the error handleSubmit sets when the upload did not succeed
UploadError(resp) ==
    IF UploadThrows(resp) THEN ErrNetwork
    ELSE OrElse(resp.body.detail, ErrProcessing)

----------------------------------------------------------------------------
(* WorkflowState: the JSON of GET /api/results/{workflow_id} *)

\* a field's value: undefined, an array of n items, an object of n entries, or a
\* string of n characters
Undefined == [t |-> "undefined", n |-> 0]

ArrayFields ==
    {"ndps_sections", "bns_sections", "bnss_sections", "bsa_sections",
     "investigation_plan", "dos", "donts", "next_steps", "historical_cases",
     "defence_perspective_rebuttal"}

ObjectFields ==
    {"fir_facts", "investigation_and_legal_timeline",
     "potential_prosecution_weaknesses", "summary_for_the_court", "chargesheet"}

StringFields == {"evidence_checklist"}

FieldNames == ArrayFields \cup ObjectFields \cup StringFields

\* the Record-typed objects, which may have no entry
RecordFields == {"fir_facts", "potential_prosecution_weaknesses"}

\* the values a field takes when it is present: empty and non-empty
FieldValues(f) ==
    IF f \in ArrayFields THEN [t : {"array"}, n : {0, 2}]
    ELSE IF f \in RecordFields THEN [t : {"object"}, n : {0, 2}]
    ELSE IF f \in ObjectFields THEN [t : {"object"}, n : {2}]
    ELSE [t : {"string"}, n : {0, 5}]

\* JavaScript truthiness of a field's value
Truthy(v) ==
    CASE v.t = "undefined" -> FALSE
      [] v.t = "array" -> TRUE
      [] v.t = "object" -> TRUE
      [] v.t = "string" -> v.n # 0
      [] v.t = "number" -> v.n # 0

\* v?.length
OptLength(v) == IF v.t = "undefined" THEN Undefined ELSE [t |-> "number", n |-> v.n]

\* a && b
AndAlso(a, b) == IF Truthy(a) THEN b ELSE a

\* state.sections: undefined, or a list of section ids
NoSections == [def |-> FALSE, ids |-> <<>>]

NoData == [f \in FieldNames |-> Undefined]

\* useState<WorkflowState | null>(null)
NullState == [kind |-> "null", workflow_id |-> Absent, sections |-> NoSections, data |-> NoData]

\* a body that is not JSON
InvalidBody ==
    [kind |-> "invalid", workflow_id |-> Absent, sections |-> NoSections, data |-> NoData]

MkState(workflow_id, sections, data) ==
    [kind |-> "object", workflow_id |-> workflow_id, sections |-> sections, data |-> data]

----------------------------------------------------------------------------
(* ResultsContent: which tabs are shown *)

SECTION_TO_TAB_MAP ==
    [s \in SectionIds |->
        CASE s = "investigation_plan" -> "investigation"
          [] s = "historical_cases" -> "historical"
          [] s = "dos_and_donts" -> "dos-donts"
          [] s = "defence_rebuttal" -> "defence-rebuttal"
          [] s = "court_summary" -> "court-summary"
          [] OTHER -> s]

NoSectionId == "null"

\* allTabs: each tab's id, its condition on the workflow state, its sectionId
AllTabs(d) ==
    << [id |-> "fir-facts", condition |-> d["fir_facts"], sectionId |-> NoSectionId],
       [id |-> "ndps", condition |-> OptLength(d["ndps_sections"]), sectionId |-> "ndps"],
       [id |-> "bns", condition |-> OptLength(d["bns_sections"]), sectionId |-> "bns"],
       [id |-> "bnss", condition |-> OptLength(d["bnss_sections"]), sectionId |-> "bnss"],
       [id |-> "bsa", condition |-> OptLength(d["bsa_sections"]), sectionId |-> "bsa"],
       [id |-> "investigation", condition |-> OptLength(d["investigation_plan"]),
        sectionId |-> "investigation_plan"],
       [id |-> "timeline", condition |-> d["investigation_and_legal_timeline"],
        sectionId |-> "timeline"],
       [id |-> "evidence", condition |-> d["evidence_checklist"], sectionId |-> "evidence"],
       [id |-> "dos-donts", condition |-> AndAlso(d["dos"], d["donts"]),
        sectionId |-> "dos_and_donts"],
       [id |-> "weaknesses", condition |-> d["potential_prosecution_weaknesses"],
        sectionId |-> "weaknesses"],
       [id |-> "defence-rebuttal", condition |-> OptLength(d["defence_perspective_rebuttal"]),
        sectionId |-> "defence_rebuttal"],
       [id |-> "court-summary", condition |-> d["summary_for_the_court"],
        sectionId |-> "court_summary"],
       [id |-> "chargesheet", condition |-> d["chargesheet"], sectionId |-> "chargesheet"],
       [id |-> "next-steps", condition |-> OptLength(d["next_steps"]), sectionId |-> NoSectionId],
       [id |-> "historical", condition |-> OptLength(d["historical_cases"]),
        sectionId |-> "historical_cases"] >>

\* the filter without "if (!tab.sectionId) return true"
TabShownBySelectionOnly(tab, selectedSections) ==
    IF tab.id = "fir-facts" THEN Truthy(tab.condition)
    ELSE IF ~Truthy(tab.condition) THEN FALSE
    ELSE IF ~selectedSections.def \/ Len(selectedSections.ids) = 0 THEN TRUE
    ELSE Includes(selectedSections.ids, tab.sectionId)

\* the predicate of allTabs.filter
TabShown(tab, selectedSections) ==
    IF tab.id = "fir-facts" THEN Truthy(tab.condition)
    ELSE IF ~Truthy(tab.condition) THEN FALSE
    ELSE IF ~selectedSections.def \/ Len(selectedSections.ids) = 0 THEN TRUE
    ELSE IF tab.sectionId = NoSectionId THEN TRUE
    ELSE Includes(selectedSections.ids, tab.sectionId)

RECURSIVE FilterTabs(_, _)
FilterTabs(all, selectedSections) ==
    IF all = <<>> THEN <<>>
    ELSE IF TabShown(Head(all), selectedSections)
         THEN <<Head(all).id>> \o FilterTabs(Tail(all), selectedSections)
         ELSE FilterTabs(Tail(all), selectedSections)

\* tabs: the ids of the tabs ResultsContent shows for a workflow state
Tabs(st) == FilterTabs(AllTabs(st.data), st.sections)

\* useState(tabs[0]?.id || '')
InitialTab(st) == IF Len(Tabs(st)) > 0 THEN Tabs(st)[1] ELSE ""

NotMounted == "unmounted"

\* list.filter((_, idx) => idx % 2 === r), idx being the index of Head(list)
RECURSIVE FilterByIndex(_, _, _)
FilterByIndex(list, idx, r) ==
    IF list = <<>> THEN <<>>
    ELSE (IF idx % 2 = r THEN <<Head(list)>> ELSE <<>>)
         \o FilterByIndex(Tail(list), idx + 1, r)

\* a left column that takes the first half of the list
LeftColumnFirstHalf(list) == SubSeq(list, 1, (Len(list) + 1) \div 2)

\* leftColumn and rightColumn of FirFactsSection, SectionsSection,
\* InvestigationPlanSection, WeaknessesSection, NextStepsSection and
\* HistoricalCasesSection
LeftColumn(list) == FilterByIndex(list, 0, 0)

RightColumn(list) == FilterByIndex(list, 0, 1)

\* no two-column section has been rendered
NoColumns == [list |-> <<>>, leftColumn |-> <<>>, rightColumn |-> <<>>, rendered |-> FALSE]

----------------------------------------------------------------------------
(* ResultsPage *)

ErrFetchResults == "Failed to fetch results"
ErrLoadResults == "Failed to load results"
ErrSelectSection == "Please select at least one section to generate"
ErrGenerating == "Error generating additional sections"
\* err.message of the TypeError a rejected fetch throws, and of the SyntaxError
\* response.json() throws
MsgFetchRejected == "Failed to fetch"
MsgJsonSyntax == "Unexpected token in JSON"

Arr2 == [t |-> "array", n |-> 2]
Obj2 == [t |-> "object", n |-> 2]

\* the workflow states the backend returns for workflow w in Spec: with none, one
\* and all of the sections generated
Payloads(w) ==
    { MkState(w, NoSections, NoData),
      MkState(w, [def |-> TRUE, ids |-> <<"ndps">>],
              [NoData EXCEPT !["fir_facts"] = Obj2, !["ndps_sections"] = Arr2]),
      MkState(w, [def |-> TRUE, ids |-> AVAILABLE_SECTIONS],
              [NoData EXCEPT !["fir_facts"] = Obj2, !["next_steps"] = Arr2]) }

\* a settled GET /api/results/{w}; the body of a response that is not ok is not read
ResultResponses(w) ==
    { [status |-> "rejected", body |-> InvalidBody],
      [status |-> "notok", body |-> InvalidBody] }
    \cup [status : {"ok"}, body : {InvalidBody, NullState} \cup Payloads(w)]

\* a settled GET /api/document/{id}
\* ("unreadable": the response is ok and response.blob() rejects)
DocumentResponses == {"ok", "unreadable", "notok", "rejected"}

RpInit ==
    [state |-> NullState, loading |-> TRUE, error |-> Null, showAddSections |-> FALSE,
     selectedNewSections |-> <<>>, isGenerating |-> FALSE, isDownloading |-> FALSE]

IdleAdd == [st |-> "idle", req |-> NoRequest]

\* pending: the workflow ids of the GET /api/document/{id} in flight; saved: the
\* name of the file the last settled call saved; alerted: what it alerted
NoReport == <<>>

IdleDl == [pending |-> <<>>, saved |-> NoReport, alerted |-> Absent]

OnResults == route.page = "results"

\* what ResultsPage returns: the loading screen, the error page, or the results
Screen(r) ==
    IF r.loading THEN "loading"
    ELSE IF TruthyString(r.error) \/ r.state.kind = "null" THEN "error"
    ELSE "results"

\* ResultsContent is rendered on the results screen only: it mounts, with
\* useState's initial value, when that screen appears, and keeps its cell over
\* re-renders
ActiveTabAfter(r, rNext, tab) ==
    IF Screen(rNext) # "results" THEN NotMounted
    ELSE IF Screen(r) # "results" THEN InitialTab(rNext.state)
    ELSE tab

\* the try block of fetchResults throws: fetch rejected, response not ok, or the
\* body is not JSON
FetchThrows(resp) == resp.status # "ok" \/ resp.body.kind = "invalid"

\* err instanceof Error ? err.message : 'Failed to load results'
FetchError(resp) ==
    IF resp.status = "rejected" THEN MsgFetchRejected
    ELSE IF resp.status = "notok" THEN ErrFetchResults
    ELSE MsgJsonSyntax

\* fetchResults with setLoading(false) at the end of the try block only
FetchResultNoFinally(r, resp) ==
    IF FetchThrows(resp)
    THEN [r EXCEPT !.error = FetchError(resp)]
    ELSE [r EXCEPT !.state = resp.body, !.loading = FALSE]

\* the useState cells after fetchResults has run to its end
FetchResult(r, resp) ==
    IF FetchThrows(resp)
    THEN [r EXCEPT !.error = FetchError(resp), !.loading = FALSE]
    ELSE [r EXCEPT !.state = resp.body, !.loading = FALSE]

RemoveAt(s, i) == SubSeq(s, 1, i - 1) \o SubSeq(s, i + 1, Len(s))

\* a fetchResults that calls itself again when it has settled
SettledFetchesPolls(pending, i) == Append(RemoveAt(pending, i), pending[i])

\* the requests of the effect still pending when the i-th has settled:
\* fetchResults issues nothing more
SettledFetches(pending, i) == RemoveAt(pending, i)

\* a pending GET /api/results/{id} of the effect settles and fetchResults resumes
FetchSettle(i, resp) ==
    /\ OnResults
    /\ i \in 1..Len(fetches)
    /\ rp' = FetchResult(rp, resp)
    /\ fetches' = SettledFetches(fetches, i)
    /\ activeTab' = ActiveTabAfter(rp, rp', activeTab)
    /\ UNCHANGED <<route, up, uploadCall, addCall, dlCall, routeChanges, columns>>

\* the effect of useEffect(..., [workflowId]) when the dependency changes
EffectFetches(pending, workflowId) == Append(pending, workflowId)

\* the location changes to another /results/:workflowId: the router keeps the
\* mounted ResultsPage and the effect runs again
RouteChange(w) ==
    /\ OnResults
    /\ w # route.workflowId
    /\ routeChanges < MaxRouteChanges
    /\ routeChanges' = routeChanges + 1
    /\ route' = [route EXCEPT !.workflowId = w]
    /\ fetches' = EffectFetches(fetches, w)
    /\ UNCHANGED <<up, uploadCall, rp, addCall, dlCall, activeTab, columns>>

\* the continuation of handleSubmit once POST /upload has settled; on success
\* navigate() unmounts UploadPage and mounts ResultsPage, whose effect fetches
UploadSettle(resp) ==
    /\ OnUpload
    /\ uploadCall.st = "pending"
    /\ uploadCall' = IdleCall
    /\ IF UploadSucceeded(resp)
       THEN /\ route' = [page |-> "results", workflowId |-> resp.body.workflow_id]
            /\ up' = UpInit
            /\ rp' = RpInit
            /\ fetches' = EffectFetches(<<>>, resp.body.workflow_id)
       ELSE /\ up' = [up EXCEPT !.error = UploadError(resp), !.isUploading = FALSE]
            /\ UNCHANGED <<route, rp, fetches>>
    /\ UNCHANGED <<addCall, dlCall, activeTab, routeChanges, columns>>

\* navigate('/'): "Upload New FIR" on the results screen, "Go Back" on the error
\* page. ResultsPage unmounts; what its pending calls do later reaches no state.
GoToUpload ==
    /\ OnResults
    /\ Screen(rp) \in {"results", "error"}
    /\ route' = [page |-> "upload", workflowId |-> Absent]
    /\ up' = UpInit
    /\ uploadCall' = IdleCall
    /\ rp' = RpInit
    /\ fetches' = <<>>
    /\ addCall' = IdleAdd
    /\ dlCall' = IdleDl
    /\ activeTab' = NotMounted
    /\ routeChanges' = 0
    /\ UNCHANGED columns

\* a tab button's onClick
ClickTab(t) ==
    /\ OnResults
    /\ Screen(rp) = "results"
    /\ Includes(Tabs(rp.state), t)
    /\ activeTab' = t
    /\ UNCHANGED <<route, up, uploadCall, rp, fetches, addCall, dlCall, routeChanges, columns>>

\* getAvailableSections(): the ids of AVAILABLE_SECTIONS not in state.sections || []
GetAvailableSections(st) ==
    Filter(AVAILABLE_SECTIONS,
           SectionIds \ (IF st.sections.def THEN Range(st.sections.ids) ELSE {}))

\* the "Add More Sections" panel is rendered on the results screen while a section
\* is left to generate
PanelShown == OnResults /\ Screen(rp) = "results" /\ Len(GetAvailableSections(rp.state)) > 0

ShowAddSections ==
    /\ PanelShown
    /\ ~rp.showAddSections
    /\ rp' = [rp EXCEPT !.showAddSections = TRUE]
    /\ UNCHANGED <<route, up, uploadCall, fetches, addCall, dlCall, activeTab, routeChanges, columns>>

CancelAddSections ==
    /\ PanelShown
    /\ rp.showAddSections
    /\ rp' = [rp EXCEPT !.showAddSections = FALSE, !.selectedNewSections = <<>>]
    /\ UNCHANGED <<route, up, uploadCall, fetches, addCall, dlCall, activeTab, routeChanges, columns>>

\* a checkbox of the panel: one is rendered for each available section
ToggleNewSection(id) ==
    /\ PanelShown
    /\ rp.showAddSections
    /\ Includes(GetAvailableSections(rp.state), id)
    /\ rp' = [rp EXCEPT !.selectedNewSections = ToggleResult(rp.selectedNewSections, id)]
    /\ UNCHANGED <<route, up, uploadCall, fetches, addCall, dlCall, activeTab, routeChanges, columns>>

SelectAllNew ==
    /\ PanelShown
    /\ rp.showAddSections
    /\ rp' = [rp EXCEPT !.selectedNewSections = GetAvailableSections(rp.state)]
    /\ UNCHANGED <<route, up, uploadCall, fetches, addCall, dlCall, activeTab, routeChanges, columns>>

\* the "Generate Sections" button's disabled attribute
GenerateDisabled == Len(rp.selectedNewSections) = 0 \/ rp.isGenerating

\* the FormData handleAddSections builds: sections and workflow_id, no file
AddSectionsRequest(r, workflowId) ==
    [file |-> NoFile, sections |-> r.selectedNewSections, workflow_id |-> workflowId,
     hasSections |-> TRUE]

\* whether handleAddSections goes on to fetch
AddSectionsSends(r, workflowId) ==
    workflowId # Absent /\ Len(r.selectedNewSections) # 0

\* handleAddSections up to its first await, called by the button's onClick
HandleAddSections ==
    /\ PanelShown
    /\ rp.showAddSections
    /\ ~GenerateDisabled
    /\ IF AddSectionsSends(rp, route.workflowId)
       THEN /\ rp' = [rp EXCEPT !.isGenerating = TRUE, !.error = Null]
            /\ addCall' = [st |-> "post", req |-> AddSectionsRequest(rp, route.workflowId)]
       ELSE /\ rp' = [rp EXCEPT !.error = ErrSelectSection]
            /\ addCall' = IdleAdd
    /\ activeTab' = ActiveTabAfter(rp, rp', activeTab)
    /\ UNCHANGED <<route, up, uploadCall, fetches, dlCall, routeChanges, columns>>

\* the GET /api/results/{workflowId} handleAddSections sends after its POST
RefreshRequest(workflowId) == [NoRequest EXCEPT !.workflow_id = workflowId]

\* the error handleAddSections sets when its POST /upload did not succeed
AddSectionsError(resp) ==
    IF UploadThrows(resp) THEN ErrNetwork
    ELSE OrElse(resp.body.detail, ErrGenerating)

\* POST /upload of handleAddSections settles: on success the handler goes on to
\* GET /api/results/{workflowId}, otherwise it sets the error and ends
AddPostSettle(resp) ==
    /\ OnResults
    /\ addCall.st = "post"
    /\ IF UploadSucceeded(resp)
       THEN /\ addCall' = [st |-> "refresh", req |-> RefreshRequest(addCall.req.workflow_id)]
            /\ rp' = rp
       ELSE /\ addCall' = IdleAdd
            /\ rp' = [rp EXCEPT !.error = AddSectionsError(resp), !.isGenerating = FALSE]
    /\ activeTab' = ActiveTabAfter(rp, rp', activeTab)
    /\ UNCHANGED <<route, up, uploadCall, fetches, dlCall, routeChanges, columns>>

\* a refresh that replaces the state and leaves the panel as it is
RefreshResultKeepsPanel(r, resp) ==
    IF resp.status = "rejected" \/ (resp.status = "ok" /\ resp.body.kind = "invalid")
    THEN [r EXCEPT !.error = ErrNetwork, !.isGenerating = FALSE]
    ELSE IF resp.status = "ok"
    THEN [r EXCEPT !.state = resp.body, !.isGenerating = FALSE]
    ELSE [r EXCEPT !.isGenerating = FALSE]

\* the useState cells after the refresh of handleAddSections has settled
RefreshResult(r, resp) ==
    IF resp.status = "rejected" \/ (resp.status = "ok" /\ resp.body.kind = "invalid")
    THEN [r EXCEPT !.error = ErrNetwork, !.isGenerating = FALSE]
    ELSE IF resp.status = "ok"
    THEN [r EXCEPT !.state = resp.body, !.showAddSections = FALSE,
                   !.selectedNewSections = <<>>, !.isGenerating = FALSE]
    ELSE [r EXCEPT !.isGenerating = FALSE]

AddRefreshSettle(resp) ==
    /\ OnResults
    /\ addCall.st = "refresh"
    /\ addCall' = IdleAdd
    /\ rp' = RefreshResult(rp, resp)
    /\ activeTab' = ActiveTabAfter(rp, rp', activeTab)
    /\ UNCHANGED <<route, up, uploadCall, fetches, dlCall, routeChanges, columns>>

\* a.download = `FIR_Report_${workflowId}.docx`
ReportName(workflowId) == <<"FIR_Report_", workflowId, ".docx">>

AlertDownload == "Failed to generate document. Please try again."

\* an onClick without the isDownloading test
DownloadStartsWhileDownloading(r, workflowId) == workflowId # Absent

\* if (!workflowId || isDownloading) return
DownloadStarts(r, workflowId) == workflowId # Absent /\ ~r.isDownloading

\* the "Generate Document" button's onClick up to its await
ClickDownload ==
    /\ OnResults
    /\ Screen(rp) = "results"
    /\ IF DownloadStarts(rp, route.workflowId)
       THEN /\ rp' = [rp EXCEPT !.isDownloading = TRUE]
            /\ dlCall' = [dlCall EXCEPT !.pending = Append(@, route.workflowId)]
       ELSE UNCHANGED <<rp, dlCall>>
    /\ UNCHANGED <<route, up, uploadCall, fetches, addCall, activeTab, routeChanges, columns>>

\* an onClick that saves whatever body it received
DownloadResultWithoutOkTest(workflowId, resp) ==
    IF resp \in {"ok", "notok"}
    THEN [saved |-> ReportName(workflowId), alerted |-> Absent]
    ELSE [saved |-> NoReport, alerted |-> AlertDownload]

\* what the onClick does with the response: the blob is saved under the name of
\* the workflowId the click saw, or the failure is alerted
DownloadResult(workflowId, resp) ==
    IF resp = "ok"
    THEN [saved |-> ReportName(workflowId), alerted |-> Absent]
    ELSE [saved |-> NoReport, alerted |-> AlertDownload]

\* an onClick that calls setIsDownloading(false) as the last statement of its try
DownloadSettleWithoutFinally(i, resp) ==
    /\ OnResults
    /\ i \in 1..Len(dlCall.pending)
    /\ dlCall' = [pending |-> RemoveAt(dlCall.pending, i),
                  saved |-> DownloadResult(dlCall.pending[i], resp).saved,
                  alerted |-> DownloadResult(dlCall.pending[i], resp).alerted]
    /\ rp' = IF resp = "ok" THEN [rp EXCEPT !.isDownloading = FALSE] ELSE rp
    /\ UNCHANGED <<route, up, uploadCall, fetches, addCall, activeTab, routeChanges, columns>>

\* the i-th pending GET /api/document/{workflowId} settles and the onClick resumes
DownloadSettle(i, resp) ==
    /\ OnResults
    /\ i \in 1..Len(dlCall.pending)
    /\ dlCall' = [pending |-> RemoveAt(dlCall.pending, i),
                  saved |-> DownloadResult(dlCall.pending[i], resp).saved,
                  alerted |-> DownloadResult(dlCall.pending[i], resp).alerted]
    /\ rp' = [rp EXCEPT !.isDownloading = FALSE]
    /\ UNCHANGED <<route, up, uploadCall, fetches, addCall, activeTab, routeChanges, columns>>

----------------------------------------------------------------------------
(* The development server (vite.config) *)

\* a URL path, cut at its slashes
UploadPath == <<"/", "upload">>

ResultsPath(workflowId) == <<"/", "api", "/", "results", "/", workflowId>>

DocumentPath(workflowId) == <<"/", "api", "/", "document", "/", workflowId>>

Backend == "http://localhost:8000"

\* server.proxy without its '/api' rule
ProxyRulesWithoutApi ==
    << [context |-> <<"/", "upload">>, target |-> Backend],
       [context |-> <<"/", "results">>, target |-> Backend] >>

\* server.proxy, in the order of its keys
ProxyRules ==
    << [context |-> <<"/", "api">>, target |-> Backend],
       [context |-> <<"/", "upload">>, target |-> Backend],
       [context |-> <<"/", "results">>, target |-> Backend] >>

\* server: the port and the proxy rules
ServerConfig == [port |-> 3000, proxy |-> ProxyRules]

\* url.startsWith(context)
StartsWith(url, context) ==
    Len(context) <= Len(url) /\ SubSeq(url, 1, Len(context)) = context

\* where the dev server sends a request: the target of the first rule whose
\* context the path starts with, or the dev server itself
NotProxied == "http://localhost:3000"

RECURSIVE FirstMatch(_, _)
FirstMatch(rules, url) ==
    IF rules = <<>> THEN NotProxied
    ELSE IF StartsWith(url, Head(rules).context) THEN Head(rules).target
    ELSE FirstMatch(Tail(rules), url)

ProxyTarget(url) == FirstMatch(ServerConfig.proxy, url)

\* the paths of the requests in flight
PendingPaths ==
    (IF uploadCall.st = "pending" \/ addCall.st = "post" THEN {UploadPath} ELSE {})
    \cup {ResultsPath(fetches[i]) : i \in 1..Len(fetches)}
    \cup (IF addCall.st = "refresh" THEN {ResultsPath(addCall.req.workflow_id)} ELSE {})
    \cup {DocumentPath(dlCall.pending[i]) : i \in 1..Len(dlCall.pending)}

----------------------------------------------------------------------------
(* The client as a whole *)

Init ==
    /\ route = [page |-> "upload", workflowId |-> Absent]
    /\ up = UpInit
    /\ uploadCall = IdleCall
    /\ rp = RpInit
    /\ fetches = <<>>
    /\ addCall = IdleAdd
    /\ dlCall = IdleDl
    /\ activeTab = NotMounted
    /\ routeChanges = 0
    /\ columns = NoColumns

\* what the user and the backend do on UploadPage
UploadNext ==
    \/ \E f \in Files \cup {NoFile} : HandleFileSelect(f)
    \/ \E f \in Files \cup {NoFile} : HandleDrop(f)
    \/ \E id \in Clickable : ToggleSection(id)
    \/ SelectAll
    \/ ClearAll
    \/ HandleSubmit
    \/ \E resp \in UploadResponses : UploadSettle(resp)

\* ResultsPage without its two buttons that call the backend
ResultsNext ==
    \/ \E i \in 1..Len(fetches) : \E resp \in ResultResponses(fetches[i]) : FetchSettle(i, resp)
    \/ \E w \in WorkflowIds : RouteChange(w)
    \/ GoToUpload
    \/ \E t \in {"fir-facts", "ndps", "next-steps"} : ClickTab(t)

\* the "Generate Additional Sections" panel
AddSectionsNext ==
    \/ ShowAddSections
    \/ CancelAddSections
    \/ \E id \in Clickable : ToggleNewSection(id)
    \/ SelectAllNew
    \/ HandleAddSections
    \/ \E resp \in UploadResponses : AddPostSettle(resp)
    \/ \E resp \in ResultResponses(addCall.req.workflow_id) : AddRefreshSettle(resp)

\* the "Generate Document" button
DownloadNext ==
    \/ ClickDownload
    \/ \E i \in 1..Len(dlCall.pending) : \E resp \in DocumentResponses : DownloadSettle(i, resp)

\* The download reads workflowId and writes isDownloading and dlCall, which nothing
\* else reads, and the panel does not read what the download writes: Spec is the
\* client whose user leaves the download button alone, DownloadSpec the client
\* whose user leaves the panel alone.
Next == UploadNext \/ ResultsNext \/ AddSectionsNext

Spec == Init /\ [][Next]_vars

DownloadSpec == Init /\ [][UploadNext \/ ResultsNext \/ DownloadNext]_vars

\* the backend answers: every pending request settles and its handler resumes;
\* nothing obliges the user to act
Answered ==
    /\ WF_vars(\E resp \in UploadResponses : UploadSettle(resp))
    /\ WF_vars(\E i \in 1..Len(fetches) :
                  \E resp \in ResultResponses(fetches[i]) : FetchSettle(i, resp))
    /\ WF_vars(\E resp \in UploadResponses : AddPostSettle(resp))
    /\ WF_vars(\E resp \in ResultResponses(addCall.req.workflow_id) : AddRefreshSettle(resp))

FairSpec == Init /\ [][Next]_vars /\ Answered

\* the backend answers the download as well
DocumentAnswered ==
    WF_vars(\E i \in 1..Len(dlCall.pending) :
               \E resp \in DocumentResponses : DownloadSettle(i, resp))

\* The client whose user uses the panel and the download button alike, on the
\* workflowId the upload navigated to. A change of workflowId is left out: it
\* starts a GET of the effect and leaves rp, addCall and dlCall as they are, and
\* the two handlers read workflowId only to build their requests.
ButtonsNext ==
    \/ UploadNext
    \/ \E i \in 1..Len(fetches) : \E resp \in ResultResponses(fetches[i]) : FetchSettle(i, resp)
    \/ GoToUpload
    \/ \E t \in {"fir-facts", "ndps", "next-steps"} : ClickTab(t)
    \/ AddSectionsNext
    \/ DownloadNext

FairButtonsSpec == Init /\ [][ButtonsNext]_vars /\ Answered /\ DocumentAnswered

----------------------------------------------------------------------------
(* ResultsContent over a wider range of workflow states *)

\* the value of field f when present: empty or not
PresentValue(f, empty) ==
    CHOOSE v \in FieldValues(f) : (v.n = 0) = (empty /\ \E e \in FieldValues(f) : e.n = 0)

\* the workflow data with the fields in `present` present, those in `empty` empty
DataWith(present, empty) ==
    [f \in FieldNames |->
        IF f \in present THEN PresentValue(f, f \in empty) ELSE Undefined]

TabData ==
    UNION { {DataWith(present, empty) : empty \in SUBSET present}
            : present \in {S \in SUBSET FieldNames : Cardinality(S) <= MaxPresent} }

\* the subsequences of s with at most k elements
RECURSIVE SubSeqs(_, _)
SubSeqs(s, k) ==
    IF s = <<>> \/ k = 0 THEN {<<>>}
    ELSE SubSeqs(Tail(s), k) \cup {<<Head(s)>> \o r : r \in SubSeqs(Tail(s), k - 1)}

\* state.sections: undefined, empty, or up to MaxSelected of the section ids
TabSelections ==
    {NoSections} \cup [def : {TRUE}, ids : SubSeqs(AVAILABLE_SECTIONS, MaxSelected)]

TabIds == {AllTabs(NoData)[i].id : i \in 1..Len(AllTabs(NoData))}

\* ResultsPage showing the results of workflow w1, whatever they are
TabInit ==
    /\ route = [page |-> "results", workflowId |-> "w1"]
    /\ up = UpInit
    /\ uploadCall = IdleCall
    /\ \E sections \in TabSelections, data \in TabData :
          rp = [RpInit EXCEPT !.state = MkState("w1", sections, data), !.loading = FALSE]
    /\ fetches = <<>>
    /\ addCall = IdleAdd
    /\ dlCall = IdleDl
    /\ activeTab = InitialTab(rp.state)
    /\ routeChanges = 0
    /\ columns = NoColumns

TabNext == \E t \in TabIds : ClickTab(t)

TabSpec == TabInit /\ [][TabNext]_vars

----------------------------------------------------------------------------
(* ColumnSpec: a two-column section rendered for the lists it may be given *)

\* what a list may hold; equal items may occur more than once
Items == {"a", "b", "c"}

RECURSIVE SeqsUpTo(_, _)
SeqsUpTo(S, n) ==
    IF n = 0 THEN {<<>>}
    ELSE SeqsUpTo(S, n - 1) \cup {Append(q, x) : q \in {r \in SeqsUpTo(S, n - 1) : Len(r) = n - 1}, x \in S}

ItemLists == SeqsUpTo(Items, MaxItems)

\* the section component renders `list`: its two filter calls
RenderColumns(list) ==
    /\ columns' = [list |-> list, leftColumn |-> LeftColumn(list),
                   rightColumn |-> RightColumn(list), rendered |-> TRUE]
    /\ UNCHANGED <<route, up, uploadCall, rp, fetches, addCall, dlCall, activeTab,
                   routeChanges>>

\* ResultsPage showing the results of workflow w1, no section rendered yet
ColumnInit ==
    /\ route = [page |-> "results", workflowId |-> "w1"]
    /\ up = UpInit
    /\ uploadCall = IdleCall
    /\ rp = [RpInit EXCEPT !.state = MkState("w1", NoSections, NoData), !.loading = FALSE]
    /\ fetches = <<>>
    /\ addCall = IdleAdd
    /\ dlCall = IdleDl
    /\ activeTab = InitialTab(rp.state)
    /\ routeChanges = 0
    /\ columns = NoColumns

ColumnNext == \E list \in ItemLists : RenderColumns(list)

ColumnSpec == ColumnInit /\ [][ColumnNext]_vars

----------------------------------------------------------------------------
(* Claims C1 - C4: the upload page *)

\* the POST /upload requests that are pending
PendingPosts ==
    (IF uploadCall.st = "pending" THEN {uploadCall.req} ELSE {})
    \cup (IF addCall.st = "post" THEN {addCall.req} ELSE {})

\* C1: a step of UploadPage navigates to /results/{workflow_id} if and only if it
\* is the continuation of handleSubmit on a response that is ok and whose JSON
\* body has success true, and the route's workflowId is that response's
\* workflow_id; no other step of the page (no file, empty selection, response not
\* ok, success false, thrown error) navigates.
C1_NavigatesIffUploadSucceeded ==
    [][OnUpload =>
        /\ \A resp \in UploadResponses :
              UploadSettle(resp) =>
                /\ (route'.page = "results")
                      <=> (resp.status = "ok" /\ resp.body.kind = "object"
                           /\ resp.body.success = "true")
                /\ route'.page = "results" => route'.workflowId = resp.body.workflow_id
        /\ (~ \E resp \in UploadResponses : UploadSettle(resp)) => route' = route]_vars

\* C1's case: handleSubmit has navigated to the results of workflow w2
C1_Witness == route = [page |-> "results", workflowId |-> "w2"] /\ rp.loading

\* C2 as stated: every pending POST /upload carries a PDF file and the section list
C2_EveryPostCarriesPdf ==
    \A req \in PendingPosts : req.hasSections /\ req.file # NoFile /\ req.file.type = PdfType

\* C2, amended: every pending POST /upload carries the section list; handleSubmit's
\* carries it with the PDF file and no workflow_id, handleAddSections' with the
\* workflow_id of the page and no file.
C2_PostCarriesSections ==
    /\ \A req \in PendingPosts : req.hasSections
    /\ uploadCall.st = "pending" =>
          /\ uploadCall.req.file # NoFile
          /\ uploadCall.req.file.type = PdfType
          /\ uploadCall.req.workflow_id = Absent
    /\ addCall.st = "post" =>
          /\ addCall.req.file = NoFile
          /\ addCall.req.workflow_id \in WorkflowIds

\* C2's case: a request of handleAddSections is pending
C2_Witness == addCall.st = "post" /\ Len(addCall.req.sections) > 0

\* C3: the section list of every pending POST /upload is non-empty, has no
\* duplicate and holds ids of AVAILABLE_SECTIONS only.
C3_SectionListWellFormed ==
    \A req \in PendingPosts :
        /\ Len(req.sections) > 0
        /\ NoDuplicates(req.sections)
        /\ Range(req.sections) \subseteq SectionIds

\* C3's case: a request is pending whose list went through Clear All and a toggle,
\* or through a toggle off and on again
C3_Witness ==
    /\ uploadCall.st = "pending"
    /\ uploadCall.req.sections[Len(uploadCall.req.sections)] = "ndps"

\* C4 as stated: the file UploadPage holds, and the file of a pending upload, is a
\* PDF of at most 10 MB
C4_FileIsSmallPdf ==
    /\ up.file # NoFile => up.file.type = PdfType /\ up.file.size <= MaxFileSize
    /\ uploadCall.st = "pending" =>
          uploadCall.req.file.type = PdfType /\ uploadCall.req.file.size <= MaxFileSize

----------------------------------------------------------------------------
(* Claims C5 - C8: errors, the results fetch *)

\* the upload response is one on which handleSubmit and handleAddSections do not
\* go on: thrown, not ok, or success not true
PostFailed(resp) ==
    ~(resp.status = "ok" /\ resp.body.kind = "object" /\ resp.body.success = "true")

\* the results response is not ok, or the fetch or the parsing threw
GetFailed(resp) == resp.status # "ok" \/ resp.body.kind = "invalid"

\* C5 as stated: every failed HTTP call ends with an error string shown: the
\* upload, the results fetch of the effect, the add-sections request, the refresh
\* that follows a successful add-sections request, and the download.
C5_EveryFailureShowsError ==
    [][/\ \A resp \in UploadResponses :
             UploadSettle(resp) /\ PostFailed(resp) => TruthyString(up'.error)
       /\ \A i \in 1..Len(fetches) : \A resp \in ResultResponses(fetches[i]) :
             FetchSettle(i, resp) /\ GetFailed(resp) => TruthyString(rp'.error)
       /\ \A resp \in UploadResponses :
             AddPostSettle(resp) /\ PostFailed(resp) => TruthyString(rp'.error)
       /\ \A resp \in ResultResponses(addCall.req.workflow_id) :
             AddRefreshSettle(resp) /\ GetFailed(resp) => TruthyString(rp'.error)
       /\ \A i \in 1..Len(dlCall.pending) : \A resp \in DocumentResponses :
             DownloadSettle(i, resp) /\ resp # "ok" => TruthyString(dlCall'.alerted)]_vars

\* C6 as stated: after an upload that did not succeed the error is the network
\* message when the request or the parsing threw, else the body's detail when it
\* is present, else 'Error processing PDF. Please try again.'; isUploading is false.
C6_DetailWhenPresent ==
    [][\A resp \in UploadResponses :
          OnUpload /\ UploadSettle(resp) /\ PostFailed(resp) =>
            /\ ~up'.isUploading
            /\ up'.error =
                 IF resp.status = "rejected" \/ resp.body.kind = "invalid"
                 THEN ErrNetwork
                 ELSE IF resp.body.kind = "object" /\ resp.body.detail # Absent
                 THEN resp.body.detail
                 ELSE ErrProcessing]_vars

\* C6, amended: after an upload that did not succeed the error is the network
\* message when the request threw, the parsing threw or the body is JSON null,
\* else the body's detail when it is present and not the empty string, else
\* 'Error processing PDF. Please try again.'; isUploading is false.
C6_DetailWhenTruthy ==
    [][\A resp \in UploadResponses :
          OnUpload /\ UploadSettle(resp) /\ PostFailed(resp) =>
            /\ ~up'.isUploading
            /\ up'.error =
                 IF resp.status = "rejected" \/ resp.body.kind \in {"invalid", "null"}
                 THEN ErrNetwork
                 ELSE IF resp.body.detail \notin {Absent, ""}
                 THEN resp.body.detail
                 ELSE ErrProcessing]_vars

\* C6's case: the backend's detail is shown and the upload is over
C6_Witness ==
    /\ OnUpload
    /\ up.error = "Invalid PDF file"
    /\ ~up.isUploading
    /\ uploadCall.st = "idle"

\* the loading screen stays until a request of the effect settles, and loading is
\* never true again on the mounted page
LoadingUntilSettled ==
    OnResults /\ route'.page = "results" =>
        /\ ~rp.loading => ~rp'.loading
        /\ rp.loading /\ ~rp'.loading =>
              \E i \in 1..Len(fetches) : \E resp \in ResultResponses(fetches[i]) :
                  FetchSettle(i, resp)

\* C7 as stated: the page shows the loading screen until the GET of the effect
\* settles; on an ok response state is the returned JSON, loading false, error
\* null and the results are rendered; otherwise state stays null, error is
\* non-null and the error page is rendered; loading is never true afterwards.
C7_OkMeansResults ==
    [][/\ LoadingUntilSettled
       /\ \A i \in 1..Len(fetches) : \A resp \in ResultResponses(fetches[i]) :
             OnResults /\ rp.loading /\ FetchSettle(i, resp) =>
               /\ Screen(rp) = "loading"
               /\ ~rp'.loading
               /\ IF resp.status = "ok"
                  THEN rp'.state = resp.body /\ rp'.error = Null
                       /\ Screen(rp') = "results"
                  ELSE rp'.state = NullState /\ rp'.error # Null
                       /\ Screen(rp') = "error"]_vars

\* C7, amended: as stated when the ok response's body is a JSON object; an ok
\* response whose body is JSON null leaves state null and error null and the error
\* page is rendered; an ok response whose body is not JSON, like a response that
\* is not ok or a rejected fetch, leaves state null, sets error and the error
\* page is rendered.
C7_OkObjectMeansResults ==
    [][/\ LoadingUntilSettled
       /\ \A i \in 1..Len(fetches) : \A resp \in ResultResponses(fetches[i]) :
             OnResults /\ rp.loading /\ FetchSettle(i, resp) =>
               /\ Screen(rp) = "loading"
               /\ ~rp'.loading
               /\ IF resp.status = "ok" /\ resp.body.kind = "object"
                  THEN rp'.state = resp.body /\ rp'.error = Null
                       /\ Screen(rp') = "results"
                  ELSE IF resp.status = "ok" /\ resp.body.kind = "null"
                  THEN rp'.state = NullState /\ rp'.error = Null
                       /\ Screen(rp') = "error"
                  ELSE rp'.state = NullState /\ rp'.error # Null
                       /\ Screen(rp') = "error"]_vars

\* C7's case: the fetch of the mount has settled ok and the results are rendered
C7_Witness ==
    /\ OnResults
    /\ fetches = <<>>
    /\ Screen(rp) = "results"
    /\ rp.state.workflow_id = route.workflowId
    /\ rp.error = Null

\* C8 as stated: while the results page stays mounted a GET /api/results/{id} is
\* issued again and again: whenever the page is mounted, later it is left or a
\* request for results is pending.
C8_Polls ==
    [](OnResults => <>(~OnResults \/ Len(fetches) > 0 \/ addCall.st = "refresh"))

\* C8, amended: GET /api/results/{id} is issued once when the page mounts and once
\* on each change of workflowId, by the effect, and once after each successful
\* add-sections request, by handleAddSections; a request that has settled is not
\* issued again and no other step issues one.
C8_OneGetPerWorkflowId ==
    [][/\ route' # route /\ route'.page = "results" =>
             fetches' = Append(IF OnResults THEN fetches ELSE <<>>, route'.workflowId)
       /\ route' = route =>
             \/ fetches' = fetches
             \/ \E i \in 1..Len(fetches) : fetches' = RemoveAt(fetches, i)
       /\ \A i \in 1..Len(fetches) : \A resp \in ResultResponses(fetches[i]) :
             FetchSettle(i, resp) => Len(fetches') = Len(fetches) - 1
       /\ addCall'.st = "refresh" /\ addCall.st # "refresh" =>
             \E resp \in UploadResponses : AddPostSettle(resp) /\ ~PostFailed(resp)]_vars

\* C8's case: the page is mounted, its one request has settled, its results are
\* shown and no request is pending
C8_Witness ==
    /\ OnResults
    /\ Screen(rp) = "results"
    /\ fetches = <<>>
    /\ addCall.st = "idle"
    /\ routeChanges = 0

----------------------------------------------------------------------------
(* Claims C9 - C10: the tabs of ResultsContent *)

\* a field of the workflow state carries data: an object that is given, a list
\* or a text that is given and not empty
HasData(v) == v.t # "undefined" /\ (v.t \in {"array", "string"} => v.n > 0)

\* the field a section's tab displays
SectionField ==
    [s \in SectionIds |->
        CASE s = "ndps" -> "ndps_sections"
          [] s = "bns" -> "bns_sections"
          [] s = "bnss" -> "bnss_sections"
          [] s = "bsa" -> "bsa_sections"
          [] s = "investigation_plan" -> "investigation_plan"
          [] s = "historical_cases" -> "historical_cases"
          [] s = "timeline" -> "investigation_and_legal_timeline"
          [] s = "evidence" -> "evidence_checklist"
          [] s = "dos_and_donts" -> "dos"
          [] s = "weaknesses" -> "potential_prosecution_weaknesses"
          [] s = "defence_rebuttal" -> "defence_perspective_rebuttal"
          [] s = "court_summary" -> "summary_for_the_court"
          [] s = "chargesheet" -> "chargesheet"]

\* the data of a section is present; for Do's & Don'ts, which displays two lists,
\* both are given and at least one has an item
SectionDataPresent(s, d) ==
    IF s = "dos_and_donts"
    THEN /\ d["dos"].t # "undefined"
         /\ d["donts"].t # "undefined"
         /\ (HasData(d["dos"]) \/ HasData(d["donts"]))
    ELSE HasData(d[SectionField[s]])

\* C9 as stated: the tab of a section is visible if and only if the section's
\* data is present and selectedSections is undefined, empty or contains the
\* section's id.
C9_SectionTabVisibleIff ==
    \A s \in SectionIds :
        Includes(Tabs(rp.state), SECTION_TO_TAB_MAP[s])
          <=> /\ SectionDataPresent(s, rp.state.data)
              /\ \/ ~rp.state.sections.def
                 \/ rp.state.sections.ids = <<>>
                 \/ Includes(rp.state.sections.ids, s)

\* C10: the FIR Facts tab is visible whenever fir_facts is present and the
\* Recommendations tab whenever next_steps is not empty, whatever selectedSections
\* is.
C10_TabsWithoutSectionId ==
    /\ rp.state.data["fir_facts"].t # "undefined" => Includes(Tabs(rp.state), "fir-facts")
    /\ rp.state.data["next_steps"].n > 0 => Includes(Tabs(rp.state), "next-steps")

\* C10's case: the selection names one section, which has no data, and both tabs
\* are shown; the user has opened Recommendations
C10_Witness ==
    /\ rp.state.sections = [def |-> TRUE, ids |-> <<"ndps">>]
    /\ rp.state.data["fir_facts"].t = "object"
    /\ rp.state.data["next_steps"].n > 0
    /\ Tabs(rp.state) = <<"fir-facts", "next-steps">>
    /\ activeTab = "next-steps"

----------------------------------------------------------------------------
(* Claim C11: no tab without data *)

\* the list or lists each list-valued tab displays
ListTabFields ==
    [t \in {"ndps", "bns", "bnss", "bsa", "investigation", "defence-rebuttal",
            "next-steps", "historical", "dos-donts"} |->
        CASE t = "ndps" -> {"ndps_sections"}
          [] t = "bns" -> {"bns_sections"}
          [] t = "bnss" -> {"bnss_sections"}
          [] t = "bsa" -> {"bsa_sections"}
          [] t = "investigation" -> {"investigation_plan"}
          [] t = "defence-rebuttal" -> {"defence_perspective_rebuttal"}
          [] t = "next-steps" -> {"next_steps"}
          [] t = "historical" -> {"historical_cases"}
          [] t = "dos-donts" -> {"dos", "donts"}]

\* C11 as stated: the tab of a list-valued section is hidden when its list, or
\* each of its lists, is absent or empty.
C11_NoTabWithoutData ==
    \A t \in DOMAIN ListTabFields :
        (\A f \in ListTabFields[t] : ~HasData(rp.state.data[f]))
            => ~Includes(Tabs(rp.state), t)

----------------------------------------------------------------------------
(* Claim C12: the two-column layout *)

\* C12: of a rendered list of n items the left column holds, in order, the items
\* at the even 0-based indices and the right column those at the odd ones: every
\* position of the list is in exactly one column, and the left column has
\* ceil(n/2) items.
C12_ColumnsPartitionList ==
    columns.rendered =>
        LET n == Len(columns.list)
            left == columns.leftColumn
            right == columns.rightColumn
        IN /\ Len(left) = (n + 1) \div 2
           /\ Len(left) + Len(right) = n
           /\ \A k \in 1..Len(left) : left[k] = columns.list[2 * (k - 1) + 1]
           /\ \A k \in 1..Len(right) : right[k] = columns.list[2 * (k - 1) + 2]

\* C12's case: a list of odd length, with an item that occurs twice, is rendered
C12_Witness ==
    /\ columns.rendered
    /\ columns.list = <<"a", "b", "a">>
    /\ columns.leftColumn = <<"a", "a">>
    /\ columns.rightColumn = <<"b">>

----------------------------------------------------------------------------
(* Claim C13: the document download *)

\* a click that starts a download requests the document of the page's workflowId
DownloadRequestsDocument ==
    ClickDownload /\ dlCall' # dlCall =>
        dlCall'.pending = Append(dlCall.pending, route.workflowId)

\* C13 as stated: a download requests GET /api/document/{workflowId}; the file
\* FIR_Report_{workflowId}.docx is saved if and only if the response is ok; when the
\* response is not ok or the call throws, no file is saved and the user is alerted.
C13_SavedIffResponseOk ==
    [][/\ DownloadRequestsDocument
       /\ \A i \in 1..Len(dlCall.pending) : \A resp \in DocumentResponses :
             DownloadSettle(i, resp) =>
               /\ (dlCall'.saved = ReportName(dlCall.pending[i]))
                     <=> resp \in {"ok", "unreadable"}
               /\ resp \in {"notok", "rejected"} =>
                     dlCall'.saved = NoReport /\ dlCall'.alerted = AlertDownload]_vars

\* C13, amended: the file is saved if and only if the response is ok and its body
\* is read; when the response is not ok, the request is rejected or reading the
\* body fails, no file is saved and the user is alerted.
C13_SavedIffBlobRead ==
    [][/\ DownloadRequestsDocument
       /\ \A i \in 1..Len(dlCall.pending) : \A resp \in DocumentResponses :
             DownloadSettle(i, resp) =>
               /\ (dlCall'.saved = ReportName(dlCall.pending[i])) <=> resp = "ok"
               /\ dlCall'.saved = NoReport <=> resp # "ok"
               /\ resp # "ok" => dlCall'.alerted = AlertDownload
               /\ resp = "ok" => dlCall'.alerted = Absent]_vars

\* C13's case: the report of workflow w2 has been saved and nothing is in flight
C13_Witness ==
    /\ OnResults
    /\ route.workflowId = "w2"
    /\ dlCall.saved = <<"FIR_Report_", "w2", ".docx">>
    /\ dlCall.pending = <<>>
    /\ ~rp.isDownloading

----------------------------------------------------------------------------
(* Claim C14: the refresh after an add-sections request *)

\* handleAddSections leaves state, the panel and its selection as they are
PanelKept ==
    /\ rp'.state = rp.state
    /\ rp'.showAddSections = rp.showAddSections
    /\ rp'.selectedNewSections = rp.selectedNewSections

\* the step is one in which the POST of handleAddSections settles, whatever the
\* response
AddPostSettled == OnResults /\ route' = route /\ addCall.st = "post" /\ addCall'.st # "post"

\* C14 as stated: when the POST of handleAddSections succeeded and the follow-up
\* GET /api/results/{workflowId} is ok, state is replaced by the refreshed results,
\* the panel is closed and selectedNewSections is emptied; no other outcome of
\* handleAddSections replaces the state.
C14_RefreshOkReplacesState ==
    [][/\ HandleAddSections => PanelKept
       /\ AddPostSettled => PanelKept
       /\ \A resp \in ResultResponses(addCall.req.workflow_id) :
             AddRefreshSettle(resp) =>
                IF resp.status = "ok"
                THEN /\ rp'.state = resp.body
                     /\ ~rp'.showAddSections
                     /\ rp'.selectedNewSections = <<>>
                ELSE PanelKept]_vars

\* C14, amended: as stated when the follow-up GET is ok and its body parses as
\* JSON; an ok response whose body does not parse is an outcome that leaves state,
\* panel and selection as they are.
C14_RefreshParsedReplacesState ==
    [][/\ HandleAddSections => PanelKept
       /\ AddPostSettled => PanelKept
       /\ \A resp \in ResultResponses(addCall.req.workflow_id) :
             AddRefreshSettle(resp) =>
                IF resp.status = "ok" /\ resp.body.kind # "invalid"
                THEN /\ rp'.state = resp.body
                     /\ ~rp'.showAddSections
                     /\ rp'.selectedNewSections = <<>>
                ELSE PanelKept]_vars

\* C14's case: the page of the first workflow showed results without a tab, the
\* refresh replaced them by results with tabs, and the panel is closed
C14_Witness ==
    /\ OnResults
    /\ routeChanges = 0
    /\ Screen(rp) = "results"
    /\ addCall.st = "idle"
    /\ activeTab = ""
    /\ Len(Tabs(rp.state)) > 0
    /\ ~rp.showAddSections
    /\ rp.selectedNewSections = <<>>

----------------------------------------------------------------------------
(* Claim C15: the dev server's proxy *)

\* C15: the dev server listens on port 3000 and the path of every request the
\* client has in flight starts with the context of a proxy rule whose target is
\* http://localhost:8000.
C15_FetchedPathsAreProxied ==
    /\ ServerConfig.port = 3000
    /\ \A url \in PendingPaths :
          /\ \E i \in 1..Len(ServerConfig.proxy) :
                StartsWith(url, ServerConfig.proxy[i].context)
          /\ ProxyTarget(url) = "http://localhost:8000"

\* C15's case: a document request and a results request are in flight together
C15_Witness ==
    /\ dlCall.pending = <<"w1">>
    /\ fetches = <<"w2">>
    /\ PendingPaths = {<<"/", "api", "/", "document", "/", "w1">>,
                       <<"/", "api", "/", "results", "/", "w2">>}

----------------------------------------------------------------------------
(* Claim C16: isUploading *)

\* C16 as stated: on the upload page isUploading is true only while a POST /upload
\* of handleSubmit is in flight.
C16_UploadingOnlyInFlight ==
    OnUpload /\ up.isUploading => uploadCall.st = "pending"

----------------------------------------------------------------------------
(* Claim C17: a failed add-sections request on a loaded page *)

\* the results screen stays, with the same results, the panel open and the error
\* set, and handleAddSections can be called again
InlineErrorShown ==
    /\ Screen(rp') = "results"
    /\ rp'.state = rp.state
    /\ rp'.showAddSections
    /\ TruthyString(rp'.error)
    /\ ~rp'.isGenerating

\* C17 as stated: when handleAddSections fails (its POST is answered with an error
\* or throws, or its refresh throws) on a page that shows results, the results
\* stay displayed with the error inline in the panel; the page does not switch to
\* the error screen and the user can retry.
C17_FailureShownInline ==
    [][/\ \A resp \in UploadResponses :
             Screen(rp) = "results" /\ AddPostSettle(resp) /\ PostFailed(resp)
                => InlineErrorShown
       /\ \A resp \in ResultResponses(addCall.req.workflow_id) :
             Screen(rp) = "results" /\ AddRefreshSettle(resp)
                /\ (resp.status = "rejected" \/ (resp.status = "ok" /\ resp.body.kind = "invalid"))
                => InlineErrorShown]_vars

----------------------------------------------------------------------------
(* Claim C18: activeTab *)

\* C18 as stated: whenever ResultsContent is mounted and a tab is visible,
\* activeTab is the id of a visible tab.
C18_ActiveTabIsVisible ==
    OnResults /\ Screen(rp) = "results" /\ Len(Tabs(rp.state)) > 0
        => Includes(Tabs(rp.state), activeTab)

----------------------------------------------------------------------------
(* Claim C19: the sections offered for additional generation *)

\* the ids state.sections lists
ExistingSections(st) == IF st.sections.def THEN Range(st.sections.ids) ELSE {}

\* C19 as stated: on the results screen the sections offered are exactly the
\* AVAILABLE_SECTIONS ids not in state.sections, selectedNewSections holds offered
\* sections only, and a request of handleAddSections names none of state.sections.
C19_SelectionIsOffered ==
    OnResults /\ Screen(rp) = "results" =>
        /\ Range(GetAvailableSections(rp.state)) = SectionIds \ ExistingSections(rp.state)
        /\ Range(rp.selectedNewSections) \subseteq Range(GetAvailableSections(rp.state))
        /\ ~GenerateDisabled =>
              Range(AddSectionsRequest(rp, route.workflowId).sections)
                 \cap ExistingSections(rp.state) = {}

----------------------------------------------------------------------------
(* Claim C20: one download at a time *)

\* C20: at most one GET /api/document/{workflowId} of a results page is in flight,
\* and while it is, isDownloading is true, which makes a click return at once.
C20_OneDownloadInFlight ==
    /\ Len(dlCall.pending) <= 1
    /\ Len(dlCall.pending) = 1 => rp.isDownloading

\* C20's case: a download is in flight on a page that has already saved a report
\* and has since changed to another workflowId
C20_Witness ==
    /\ OnResults
    /\ Len(dlCall.pending) = 1
    /\ rp.isDownloading
    /\ dlCall.saved # NoReport
    /\ dlCall.pending[1] # route.workflowId

----------------------------------------------------------------------------
(* Claim C21: responses that arrive out of order *)

\* C21 as stated: once no request for results is pending, the results displayed
\* are those of the route's current workflowId: the response for an earlier
\* workflowId does not overwrite them, whatever order the responses arrive in.
C21_DisplayedStateIsCurrent ==
    /\ OnResults
    /\ fetches = <<>>
    /\ addCall.st = "idle"
    /\ Screen(rp) = "results"
    => rp.state.workflow_id = route.workflowId

(* Claim C22: what a file choice changes *)
\* a choice the handlers reject leaves everything but the error as it was
RejectedWith(message) ==
    /\ up'.error = message
    /\ up'.file = up.file
    /\ up'.selectedSections = up.selectedSections
    /\ up'.isUploading = up.isUploading

\* a choice the handlers accept becomes the file, and the error is cleared
AcceptedAs(f) ==
    /\ up'.file = f
    /\ up'.error = Null

\* C22: a file choice that is rejected (handleFileSelect: not a PDF, or a PDF
\* over 10 MB; handleDrop: not a PDF, or no file) sets an error string and leaves
\* the file accepted before, the section selection and isUploading unchanged; an
\* accepted choice replaces the file and clears the error.
C22_RejectionKeepsAcceptedFile ==
    [][ /\ \A f \in Files : HandleFileSelect(f) =>
            IF f.type # PdfType THEN RejectedWith(ErrSelectPdf)
            ELSE IF f.size > 10 * 1024 * 1024 THEN RejectedWith(ErrFileSize)
            ELSE AcceptedAs(f)
        /\ \A f \in Files \cup {NoFile} : HandleDrop(f) =>
            IF f = NoFile \/ f.type # PdfType THEN RejectedWith(ErrDropPdf)
            ELSE AcceptedAs(f)
      ]_vars

\* a PDF was accepted, and a later PDF over 10 MB was rejected
C22_Witness ==
    /\ OnUpload
    /\ up.file # NoFile
    /\ up.error = ErrFileSize

(* Claim C23: the two busy flags are released *)
\* an add-sections attempt is under way: its POST or its refresh is pending
Generating == addCall.st # "idle"

\* a download attempt is under way
Downloading == dlCall.pending # <<>>

\* C23: when the backend answers every request, every add-sections attempt ends
\* with isGenerating false and every download attempt ends with isDownloading
\* false, whatever the answers are (ok, not ok, unreadable, rejected).
C23_BusyFlagsAreReleased ==
    /\ Generating ~> (~Generating /\ ~rp.isGenerating)
    /\ Downloading ~> (~Downloading /\ ~rp.isDownloading)

\* both attempts are under way at once, each with its flag set
C23_Witness ==
    /\ Generating
    /\ rp.isGenerating
    /\ Downloading
    /\ rp.isDownloading

====
